---- MODULE Spec2Model ----
(***************************************************************************)
(* Model of the asynchronous connection pool of DreamLuckin                *)
(* (services/base/lucky_base_db_service_async.py, class                    *)
(* LuckyDBPoolServiceAsync) together with the liveness probe of            *)
(* ChatRecordDBService (services/impl/chat_record_db_service_impl.py).     *)
(*                                                                         *)
(* The pool is class-level state: _pool (an asyncio.Queue of raw           *)
(* connections), _is_initialized, _max_connections, _min_connections.      *)
(* Client coroutines call get_connection / release_connection directly or  *)
(* through the context manager acquire_connection; one owner coroutine     *)
(* calls init_pool and later close_pool.  Every `await` that can suspend   *)
(* is a step boundary; code between two suspension points is one step.     *)
(*                                                                         *)
(* The second part models the analysis pipeline of ChatRecordAnalyzer      *)
(* (chat_analyzer/chat_record_analyzer.py): run() and its stages, and the  *)
(* text rewrite _replace_wxid_content, and the batch context lookup        *)
(* ChatRecordDBService.get_batch_context_records_by_local_ids.  The pool,  *)
(* the pipeline, the rewrite and the lookup each have their own            *)
(* specification (Spec, SpecPipe, SpecText, SpecBatch); the variables of   *)
(* the other parts stay at their initial values.                           *)
(***************************************************************************)
EXTENDS Integers, Sequences, FiniteSets, TLC

\* ---------------------------------------------------------------- bounds
NumTasks   == 2        \* client coroutines
MaxHandles == 2        \* physical connections that may ever be opened
MaxSize    == 2        \* largest max_connections / min_connections tried
NumContacts == 2       \* rows of the contact table
MaxRow     == 2        \* largest local_id a retrieval query returns
MaxLimit   == 2        \* largest context_front_limit / context_end_limit tried
MaxLen     == 5        \* longest message_content tried, in symbols

Tasks   == 1..NumTasks
Handles == 1..MaxHandles
NoConn  == 0           \* Python None for a connection reference

VARIABLES
    is_initialized,    \* cls._is_initialized
    pool_set,          \* cls._pool is an asyncio.Queue (FALSE: None)
    pool,              \* content of the asyncio.Queue object, FIFO
    max_connections,   \* cls._max_connections
    min_connections,   \* cls._min_connections
    hstate,            \* per physical connection: unopened / open / closed
    pc,                \* per task: suspension point it is parked at
    conn,              \* per task: connection its frame refers to
    scoped,            \* per task: running inside acquire_connection
    exc,               \* per task: exception pending while finally runs
    last_probe,        \* per task: last value returned by _test_db_connection
    result,            \* per task: how the finished call ended
    carried,           \* per task: max_connections inside DBPoolExhaustedError
    mpc,               \* owner coroutine: position in init_pool / close_pool
    mconn,             \* owner coroutine: connection being closed by close_pool
    free_at_close,     \* history: content of the free queue when close_pool began
    offered,           \* history: tasks waiting in _pool.get() since a release put a
                       \* connection (kept until close_pool begins)
    \* ---- ChatRecordAnalyzer.run and what it reads
    ppc,               \* position of run(): the stage about to execute
    perr,              \* exception that ended run(), "none" if none
    target_value,      \* app_config.stat_mode.target_contact_list
    context_front_limit,   \* app_config.pet_phrase_config.context_front_limit
    context_end_limit,     \* app_config.pet_phrase_config.context_end_limit
    archive,           \* chat archive: the mapped tables sqlite_sequence lists
    store_desc,        \* chat archive returns rows in descending local_id order
    absent_row,        \* chat archive: the local_id no table stores (0: none)
    filter_group_chat, \* app_config.filter_config.filter_group_chat
    contact_result,    \* _associate_mapping: rows returned by get_contacts
    mapping_cache,     \* self.mapping_cache: table name -> username
    pending_tables,    \* list returned by _get_pending_tables
    process_result,    \* self.process_result: table name -> core local_ids, in dict order
    backtrack_front_id_map,  \* _calculate_backtrack_ids: table -> core id -> ids before
    backtrack_last_id_map,   \* _calculate_backtrack_ids: table -> core id -> ids after
    backtrack_front_result,  \* _backtrack_context: table -> core id -> context rows before
    backtrack_last_result,   \* _backtrack_context: table -> core id -> context rows after
    analyzer_result,   \* self.analyzer_result
    queries,           \* history: store round trips per table and kind
    \* ---- _replace_wxid_content
    tpc,               \* "input" before the call, "output" after it
    message_content,   \* record.message_content, a sequence of symbols
    real_sender_id,    \* record.real_sender_id
    nick_mapping,      \* username_to_nickname, restricted to the ids tried
    content_in,        \* history: message_content when the call began
    \* ---- get_batch_context_records_by_local_ids
    bpc,               \* "input" before the call, "returned" after it
    core_local_id_set, \* argument core_local_id_set
    batch_limit,       \* argument limit
    table_rows,        \* chat archive: local_ids of the text rows of the table
    query_fails,       \* chat archive: execute_query raises
    core_context_map   \* the dict the call returned: core id -> context local_ids

analyzerVars == <<ppc, perr, target_value, context_front_limit,
                  context_end_limit, archive, store_desc, absent_row,
                  filter_group_chat,
                  contact_result, mapping_cache, pending_tables,
                  process_result, backtrack_front_id_map,
                  backtrack_last_id_map, backtrack_front_result,
                  backtrack_last_result, analyzer_result, queries>>
textVars == <<tpc, message_content, real_sender_id, nick_mapping, content_in>>
batchVars == <<bpc, core_local_id_set, batch_limit, table_rows, query_fails,
               core_context_map>>

vars == <<is_initialized, pool_set, pool, max_connections, min_connections,
          hstate, pc, conn, scoped, exc, last_probe, result, carried,
          mpc, mconn, free_at_close, offered, analyzerVars, textVars,
          batchVars>>

poolVars == <<is_initialized, pool_set, pool, max_connections, min_connections>>
mainVars == <<mpc, mconn, free_at_close>>
taskVars == <<pc, conn, scoped, exc, last_probe, result, carried>>

\* ------------------------------------------------------------- helpers
SeqToSet(s) == {s[i] : i \in 1..Len(s)}

\* the queue made without its maxsize argument is never full
QueueFullUnbounded == FALSE

\* asyncio.Queue.full() of the queue made by asyncio.Queue(maxsize=
\* max_connections): maxsize > 0 and qsize() >= maxsize
QueueFull == max_connections > 0 /\ Len(pool) >= max_connections

\* the guard at the head of get_connection / release_connection / close_pool
PoolReady == is_initialized /\ pool_set

\* the queue after a peek that leaves the head in place
QueueAfterPeek(q) == q

\* the queue after _pool.get() / get_nowait() took its head
QueueAfterGet(q) == Tail(q)

\* what _test_db_connection can do on a connection: return True, return
\* False (sqlite_sequence empty) or raise DBPreloadFailedError
ProbeOutcomes(h) ==
    IF hstate[h] = "open" THEN {"true", "false", "raise"} ELSE {"raise"}

\* what _create_connection can do: return a connection whose probe said
\* True or False (the value is not looked at), raise after the connection
\* was opened (a PRAGMA or the probe raised), or fail in connect()
CreateOutcomes == {"true", "false", "raise", "connect_fail"}

Unopened  == {h \in Handles : hstate[h] = "unopened"}
NewHandle == CHOOSE h \in Unopened : \A g \in Unopened : h <= g

PoolInit ==
    /\ is_initialized = FALSE
    /\ pool_set = FALSE
    /\ pool = <<>>
    /\ max_connections = 10
    /\ min_connections = 5
    /\ hstate = [h \in Handles |-> "unopened"]
    /\ pc = [t \in Tasks |-> "idle"]
    /\ conn = [t \in Tasks |-> NoConn]
    /\ scoped = [t \in Tasks |-> FALSE]
    /\ exc = [t \in Tasks |-> "none"]
    /\ last_probe = [t \in Tasks |-> "none"]
    /\ result = [t \in Tasks |-> "none"]
    /\ carried = [t \in Tasks |-> 0]
    /\ mpc = "start"
    /\ mconn = NoConn
    /\ free_at_close = {}
    /\ offered = {}

\* ChatRecordAnalyzer.__init__: empty caches; no run() has been started
AnalyzerIdle ==
    /\ ppc = "idle"
    /\ perr = "none"
    /\ target_value = {}
    /\ context_front_limit = 0
    /\ context_end_limit = 0
    /\ archive = {}
    /\ store_desc = FALSE
    /\ absent_row = 0
    /\ filter_group_chat = TRUE
    /\ contact_result = {}
    /\ mapping_cache = <<>>
    /\ pending_tables = <<>>
    /\ process_result = <<>>
    /\ backtrack_front_id_map = <<>>
    /\ backtrack_last_id_map = <<>>
    /\ backtrack_front_result = <<>>
    /\ backtrack_last_result = <<>>
    /\ analyzer_result = <<>>
    /\ queries = <<>>

\* no record is being rewritten
TextIdle ==
    /\ tpc = "idle"
    /\ message_content = <<>>
    /\ real_sender_id = 1
    /\ nick_mapping = <<>>
    /\ content_in = <<>>

\* no batch lookup has been called
BatchIdle ==
    /\ bpc = "idle"
    /\ core_local_id_set = {}
    /\ batch_limit = 0
    /\ table_rows = {}
    /\ query_fails = FALSE
    /\ core_context_map = <<>>

Init == PoolInit /\ AnalyzerIdle /\ TextIdle /\ BatchIdle

\* ------------------------------------------------------------ init_pool
\* a preload loop that fills the queue up to its maxsize
PreloadCountMax(maxc, minc) == maxc

\* the number of iterations of the pre-creation loop: range(min_connections)
PreloadCount(maxc, minc) == minc

\* init_pool up to its first suspension: the fields are set and a new
\* queue is made; with min_connections = 0 the loop body never runs
InitPool(maxc, minc) ==
    /\ mpc = "start"
    /\ ~is_initialized
    /\ max_connections' = maxc
    /\ min_connections' = minc
    /\ pool' = <<>>
    /\ pool_set' = TRUE
    /\ is_initialized' = (PreloadCount(maxc, minc) = 0)
    /\ mpc' = IF PreloadCount(maxc, minc) = 0 THEN "ready" ELSE "init"
    /\ UNCHANGED <<hstate, taskVars, mconn, free_at_close>>
    /\ UNCHANGED offered
    /\ UNCHANGED <<analyzerVars, textVars, batchVars>>

\* one iteration of the pre-creation loop: _create_connection, then
\* _pool.put; put on a full queue never returns (nothing dequeues before
\* _is_initialized is set)
InitStep(o) ==
    /\ mpc = "init"
    /\ \/ /\ o = "connect_fail"
          /\ mpc' = "init_failed"
          /\ UNCHANGED <<hstate, pool, is_initialized, mconn>>
       \/ /\ o = "raise"
          /\ Unopened # {}
          /\ hstate' = [hstate EXCEPT ![NewHandle] = "open"]
          /\ mpc' = "init_failed"
          /\ UNCHANGED <<pool, is_initialized, mconn>>
       \/ /\ o \in {"true", "false"}
          /\ Unopened # {}
          /\ hstate' = [hstate EXCEPT ![NewHandle] = "open"]
          /\ IF QueueFull
             THEN /\ mpc' = "init_blocked"
                  /\ mconn' = NewHandle
                  /\ UNCHANGED <<pool, is_initialized>>
             ELSE /\ pool' = Append(pool, NewHandle)
                  /\ is_initialized' =
                        (Len(pool') = PreloadCount(max_connections, min_connections))
                  /\ mpc' = IF Len(pool') = PreloadCount(max_connections, min_connections)
                            THEN "ready" ELSE "init"
                  /\ UNCHANGED mconn
    /\ UNCHANGED <<pool_set, max_connections, min_connections,
                   taskVars, free_at_close>>
    /\ UNCHANGED offered
    /\ UNCHANGED <<analyzerVars, textVars, batchVars>>

\* ----------------------------------------------------------- close_pool
\* close_pool up to its first suspension: the flag is cleared, then
\* get_nowait either raises QueueEmpty (the reference is dropped and the
\* call returns) or yields a connection whose close() is awaited
ClosePool ==
    /\ mpc = "ready"
    /\ PoolReady
    /\ is_initialized' = FALSE
    /\ free_at_close' = SeqToSet(pool)
    /\ IF pool = <<>>
       THEN /\ pool_set' = FALSE
            /\ mpc' = "closed"
            /\ UNCHANGED <<pool, mconn>>
       ELSE /\ mconn' = Head(pool)
            /\ pool' = QueueAfterGet(pool)
            /\ mpc' = "closing"
            /\ UNCHANGED pool_set
    /\ UNCHANGED <<max_connections, min_connections, hstate,
                   taskVars>>
    /\ offered' = {}
    /\ UNCHANGED <<analyzerVars, textVars, batchVars>>

\* close() of the dequeued connection completes (a failure of close() is
\* only logged and is not modelled), the loop takes the next connection
\* or ends on QueueEmpty and drops the queue reference
CloseStep ==
    /\ mpc = "closing"
    /\ hstate' = [hstate EXCEPT ![mconn] = "closed"]
    /\ IF pool = <<>>
       THEN /\ pool_set' = FALSE
            /\ mpc' = "closed"
            /\ mconn' = NoConn
            /\ UNCHANGED pool
       ELSE /\ mconn' = Head(pool)
            /\ pool' = QueueAfterGet(pool)
            /\ mpc' = "closing"
            /\ UNCHANGED pool_set
    /\ UNCHANGED <<is_initialized, max_connections, min_connections,
                   taskVars, free_at_close>>
    /\ UNCHANGED offered
    /\ UNCHANGED <<analyzerVars, textVars, batchVars>>

\* ------------------------------------------------------- task bookkeeping
\* the call of task t ends with outcome r: its frame is gone
Finish(t, r) ==
    /\ pc' = [pc EXCEPT ![t] = "done"]
    /\ result' = [result EXCEPT ![t] = r]
    /\ carried' = [carried EXCEPT ![t] =
                      IF r = "DBPoolExhaustedError" THEN max_connections ELSE 0]
    /\ conn' = [conn EXCEPT ![t] = NoConn]
    /\ scoped' = [scoped EXCEPT ![t] = FALSE]
    /\ exc' = [exc EXCEPT ![t] = "none"]
    /\ last_probe' = [last_probe EXCEPT ![t] = "none"]

\* release_connection returned normally: the caller sees either nothing
\* or the exception that was pending while the finally block ran
Released(t) ==
    Finish(t, IF exc[t] = "none" THEN "released" ELSE exc[t])

\* the caller has looked at the outcome and may start another call
Return(t) ==
    /\ pc[t] = "done"
    /\ pc' = [pc EXCEPT ![t] = "idle"]
    /\ result' = [result EXCEPT ![t] = "none"]
    /\ carried' = [carried EXCEPT ![t] = 0]
    /\ UNCHANGED <<poolVars, mainVars, hstate, conn, scoped, exc, last_probe>>
    /\ UNCHANGED offered
    /\ UNCHANGED <<analyzerVars, textVars, batchVars>>

\* --------------------------------------------------------- get_connection
\* entry of get_connection (sc: called from acquire_connection): the
\* guard, then the await of wait_for(_pool.get(), timeout=3).  The getter
\* takes its connection in a later step: wait_for runs _pool.get() as a
\* task of its own, and a getter woken by a put runs only when the loop
\* resumes it, so other coroutines can run in between.
GetConnection(t, sc) ==
    /\ pc[t] = "idle"
    /\ IF ~PoolReady
       THEN Finish(t, "DBServiceNotPreloadedError")
       ELSE /\ pc' = [pc EXCEPT ![t] = "get_wait"]
            /\ scoped' = [scoped EXCEPT ![t] = sc]
            /\ UNCHANGED <<conn, exc, last_probe, result, carried>>
    /\ UNCHANGED <<poolVars, mainVars, hstate>>
    /\ UNCHANGED offered
    /\ UNCHANGED <<analyzerVars, textVars, batchVars>>

\* _pool.get() yields the head of the queue; is_valid() is awaited next
GetDequeue(t) ==
    /\ pc[t] = "get_wait"
    /\ pool # <<>>
    /\ conn' = [conn EXCEPT ![t] = Head(pool)]
    /\ pool' = QueueAfterGet(pool)
    /\ pc' = [pc EXCEPT ![t] = "get_probe"]
    /\ UNCHANGED <<is_initialized, pool_set, max_connections, min_connections,
                   mainVars, hstate, scoped, exc, last_probe, result, carried>>
    /\ offered' = offered \ {t}
    /\ UNCHANGED <<analyzerVars, textVars, batchVars>>

\* the queue stayed empty for 3 seconds: asyncio.TimeoutError is turned
\* into DBPoolExhaustedError(cls._max_connections)
GetTimeout(t) ==
    /\ pc[t] = "get_wait"
    /\ pool = <<>>
    /\ Finish(t, "DBPoolExhaustedError")
    /\ UNCHANGED <<poolVars, mainVars, hstate>>
    /\ offered' = offered \ {t}
    /\ UNCHANGED <<analyzerVars, textVars, batchVars>>

\* is_valid() of the dequeued connection completes
GetProbe(t, o) ==
    /\ pc[t] = "get_probe"
    /\ o \in ProbeOutcomes(conn[t])
    /\ \/ /\ o = "true"
          /\ pc' = [pc EXCEPT ![t] = "held"]
          /\ last_probe' = [last_probe EXCEPT ![t] = o]
          /\ UNCHANGED <<conn, scoped, exc, result, carried>>
       \/ /\ o = "false"
          /\ pc' = [pc EXCEPT ![t] = "get_create"]
          /\ conn' = [conn EXCEPT ![t] = NoConn]
          /\ last_probe' = [last_probe EXCEPT ![t] = o]
          /\ UNCHANGED <<scoped, exc, result, carried>>
       \/ /\ o = "raise"
          /\ Finish(t, "DBPreloadFailedError")
    /\ UNCHANGED <<poolVars, mainVars, hstate>>
    /\ UNCHANGED offered
    /\ UNCHANGED <<analyzerVars, textVars, batchVars>>

\* _create_connection() of the replacement completes
GetCreate(t, o) ==
    /\ pc[t] = "get_create"
    /\ o \in CreateOutcomes
    /\ \/ /\ o = "connect_fail"
          /\ Finish(t, "DBPreloadFailedError")
          /\ UNCHANGED hstate
       \/ /\ o = "raise"
          /\ Unopened # {}
          /\ hstate' = [hstate EXCEPT ![NewHandle] = "open"]
          /\ Finish(t, "DBPreloadFailedError")
       \/ /\ o \in {"true", "false"}
          /\ Unopened # {}
          /\ hstate' = [hstate EXCEPT ![NewHandle] = "open"]
          /\ conn' = [conn EXCEPT ![t] = NewHandle]
          /\ last_probe' = [last_probe EXCEPT ![t] = o]
          /\ pc' = [pc EXCEPT ![t] = "held"]
          /\ UNCHANGED <<scoped, exc, result, carried>>
    /\ UNCHANGED <<poolVars, mainVars>>
    /\ UNCHANGED offered
    /\ UNCHANGED <<analyzerVars, textVars, batchVars>>

\* CancelledError delivered while get_connection is suspended: it is a
\* BaseException, no handler of get_connection or _create_connection
\* catches it.  A cancelled _create_connection may already have opened
\* its connection (cancelled in a PRAGMA or in the probe) or not yet.
Cancel(t) ==
    /\ \/ /\ pc[t] \in {"get_wait", "get_probe", "get_create"}
          /\ UNCHANGED hstate
       \/ /\ pc[t] = "get_create"
          /\ Unopened # {}
          /\ hstate' = [hstate EXCEPT ![NewHandle] = "open"]
    /\ Finish(t, "CancelledError")
    /\ UNCHANGED <<poolVars, mainVars>>
    /\ offered' = offered \ {t}
    /\ UNCHANGED <<analyzerVars, textVars, batchVars>>

\* ----------------------------------------------------- release_connection
\* entry of release_connection for the connection the task holds.  e is
\* how the caller got here: "none" for a plain call or a normal exit of
\* the acquire_connection body, "BodyError" / "CancelledError" when the
\* body raised or was cancelled and the finally block releases.  The
\* guard is evaluated, then is_valid() is awaited.
ReleaseConnection(t, e) ==
    /\ pc[t] = "held"
    /\ e \in (IF scoped[t] THEN {"none", "BodyError", "CancelledError"} ELSE {"none"})
    /\ IF ~PoolReady
       THEN Finish(t, "DBServiceNotPreloadedError")
       ELSE /\ pc' = [pc EXCEPT ![t] = "rel_probe"]
            /\ exc' = [exc EXCEPT ![t] = e]
            /\ UNCHANGED <<conn, scoped, last_probe, result, carried>>
    /\ UNCHANGED <<poolVars, mainVars, hstate>>
    /\ UNCHANGED offered
    /\ UNCHANGED <<analyzerVars, textVars, batchVars>>

\* is_valid() completes; `and not cls._pool.full()` and the put on a
\* queue that is not full run without suspension, else close() is awaited
RelProbe(t, o) ==
    /\ pc[t] = "rel_probe"
    /\ o \in ProbeOutcomes(conn[t])
    /\ \/ /\ o = "raise"
          /\ Finish(t, "DBPreloadFailedError")
          /\ UNCHANGED pool
       \/ /\ o = "true"
          /\ ~pool_set
          /\ Finish(t, "AttributeError")
          /\ UNCHANGED pool
       \/ /\ o = "true"
          /\ pool_set
          /\ ~QueueFull
          /\ pool' = Append(pool, conn[t])
          /\ Released(t)
       \/ /\ \/ o = "false"
             \/ o = "true" /\ pool_set /\ QueueFull
          /\ pc' = [pc EXCEPT ![t] = "rel_close"]
          /\ last_probe' = [last_probe EXCEPT ![t] = o]
          /\ UNCHANGED <<pool, conn, scoped, exc, result, carried>>
    /\ UNCHANGED <<is_initialized, pool_set, max_connections, min_connections,
                   mainVars, hstate>>
    /\ offered' = IF o = "true" /\ pool_set /\ ~QueueFull /\ mpc = "ready"
                   THEN offered \cup {u \in Tasks : pc[u] = "get_wait"}
                   ELSE offered
    /\ UNCHANGED <<analyzerVars, textVars, batchVars>>

\* close() completes; `cls._pool.qsize() < cls._min_connections` decides
\* whether _create_connection() is awaited
RelClose(t) ==
    /\ pc[t] = "rel_close"
    /\ hstate' = [hstate EXCEPT ![conn[t]] = "closed"]
    /\ IF ~pool_set
       THEN Finish(t, "AttributeError")
       ELSE IF Len(pool) < min_connections
       THEN /\ pc' = [pc EXCEPT ![t] = "rel_create"]
            /\ conn' = [conn EXCEPT ![t] = NoConn]
            /\ UNCHANGED <<scoped, exc, last_probe, result, carried>>
       ELSE Released(t)
    /\ UNCHANGED <<poolVars, mainVars>>
    /\ UNCHANGED offered
    /\ UNCHANGED <<analyzerVars, textVars, batchVars>>

\* _create_connection() of the refill completes and the new connection
\* is put; put on a full queue waits for room
RelCreate(t, o) ==
    /\ pc[t] = "rel_create"
    /\ o \in CreateOutcomes
    /\ \/ /\ o = "connect_fail"
          /\ Finish(t, "DBPreloadFailedError")
          /\ UNCHANGED <<hstate, pool>>
       \/ /\ o = "raise"
          /\ Unopened # {}
          /\ hstate' = [hstate EXCEPT ![NewHandle] = "open"]
          /\ Finish(t, "DBPreloadFailedError")
          /\ UNCHANGED pool
       \/ /\ o \in {"true", "false"}
          /\ Unopened # {}
          /\ hstate' = [hstate EXCEPT ![NewHandle] = "open"]
          /\ IF ~pool_set
             THEN /\ Finish(t, "AttributeError")
                  /\ UNCHANGED pool
             ELSE /\ ~QueueFull
                  /\ pool' = Append(pool, NewHandle)
                  /\ Released(t)
    /\ UNCHANGED <<is_initialized, pool_set, max_connections, min_connections,
                   mainVars>>
    /\ UNCHANGED offered
    /\ UNCHANGED <<analyzerVars, textVars, batchVars>>

\* ------------------------------------------------------------------ Next
\* ============================================== ChatRecordAnalyzer.run
Usernames == 1..NumContacts

\* contact table: the remark of contact u, and its local_type (1 friend,
\* 2 group chat)
RemarkOf(u)  == <<"name", u>>
LocalType(u) == IF u = 1 THEN 1 ELSE 2

\* values a configuration may list: the remarks of the contact table (a
\* listed group chat matches no row when group chats are filtered)
Names == {RemarkOf(u) : u \in Usernames}

\* ContactDBService.get_contacts: local_type condition, and the IN
\* condition only when the list is not empty
GetContacts(tv, fgc) ==
    {u \in Usernames :
        /\ IF fgc THEN LocalType(u) = 1 ELSE LocalType(u) \in {1, 2, 3}
        /\ tv # {} => RemarkOf(u) \in tv}

\* f"Msg_{md5(username)}"
TableOf(u) == <<"Msg_", u>>
AllTables  == {TableOf(u) : u \in Usernames}

\* a mapping that lists every contact of the store, matched or not
AssociateAll(rows) == [t \in AllTables |-> CHOOSE u \in Usernames : TableOf(u) = t]

\* the dictionary _associate_mapping builds from the rows: one key per row
Associate(rows) ==
    [t \in {TableOf(u) : u \in rows} |-> CHOOSE u \in rows : TableOf(u) = t]

\* list.sort() of distinct integers
RECURSIVE AscSeq(_)
AscSeq(S) ==
    IF S = {} THEN <<>>
    ELSE LET m == CHOOSE x \in S : \A y \in S : x <= y
         IN  <<m>> \o AscSeq(S \ {m})

Reverse(s) == [i \in 1..Len(s) |-> s[Len(s) + 1 - i]]

\* order in which the chat archive returns rows of a query without ORDER BY
StoreOrder(S) == IF store_desc THEN Reverse(AscSeq(S)) ELSE AscSeq(S)

\* local_ids a table of the chat archive stores (text rows): all up to
\* the largest context id, except absent_row
StoredRows == (1..(MaxRow + MaxLimit)) \ {absent_row}

\* the rows that may be missing: none, or the first one after the
\* largest core id
AbsentChoices == {0, MaxRow + 1}

\* check_tables_exist that reports every requested table as existing
CheckTablesExistAll(names) ==
    LET us == {u \in Usernames : TableOf(u) \in names}
    IN  [i \in 1..Cardinality(us) |-> TableOf(Reverse(AscSeq(us))[i])]

\* check_tables_exist without the name IN (...) condition: every table of
\* the archive
CheckTablesExistNoFilter(names) ==
    [i \in 1..NumContacts |-> TableOf(Reverse(AscSeq(Usernames))[i])]

\* ChatRecordDBService.check_tables_exist: the keys of the returned dict,
\* rows of sqlite_sequence whose name is in the list, ORDER BY seq DESC
\* (the table of contact u has seq u)
CheckTablesExist(names) ==
    LET us == {u \in Usernames : TableOf(u) \in names /\ TableOf(u) \in archive'}
    IN  [i \in 1..Cardinality(us) |-> TableOf(Reverse(AscSeq(us))[i])]

NoQueries ==
    [exist |-> 0,
     retrieve |-> [t \in AllTables |-> 0],
     front |-> [t \in AllTables |-> 0],
     last |-> [t \in AllTables |-> 0]]

\* a run of the pipeline is about to start on some configuration and
\* some content of the stores
PipeStart ==
    /\ ppc = "associate"
    /\ perr = "none"
    /\ target_value \in SUBSET Names
    /\ context_front_limit \in 0..MaxLimit
    /\ context_end_limit \in 0..MaxLimit
    /\ archive = {}
    /\ store_desc \in BOOLEAN
    /\ absent_row \in AbsentChoices
    /\ filter_group_chat \in BOOLEAN
    /\ contact_result = {}
    /\ mapping_cache = <<>>
    /\ pending_tables = <<>>
    /\ process_result = <<>>
    /\ backtrack_front_id_map = <<>>
    /\ backtrack_last_id_map = <<>>
    /\ backtrack_front_result = <<>>
    /\ backtrack_last_result = <<>>
    /\ analyzer_result = <<>>
    /\ queries = NoQueries

PipeInit == PoolInit /\ PipeStart /\ TextIdle /\ BatchIdle

\* step 1, _associate_mapping
AssociateMapping ==
    /\ ppc = "associate"
    /\ contact_result' = GetContacts(target_value, filter_group_chat)
    /\ IF contact_result' = {}
       THEN /\ ppc' = "failed"
            /\ perr' = "ContactNotFoundError"
            /\ UNCHANGED mapping_cache
       ELSE /\ mapping_cache' = Associate(contact_result')
            /\ ppc' = "pending"
            /\ UNCHANGED perr
    /\ UNCHANGED <<target_value, context_front_limit, context_end_limit,
                   archive, store_desc, absent_row, filter_group_chat,
                   pending_tables, process_result, backtrack_front_id_map,
                   backtrack_last_id_map, backtrack_front_result,
                   backtrack_last_result, analyzer_result, queries>>
    /\ UNCHANGED <<poolVars, hstate, taskVars, mainVars, offered, textVars,
                 batchVars>>

\* step 2, _get_pending_tables; a is the set of requested tables that
\* sqlite_sequence lists
GetPendingTables(a) ==
    /\ ppc = "pending"
    /\ a \subseteq DOMAIN mapping_cache
    /\ archive' = a
    /\ LET valid_tables == CheckTablesExist(DOMAIN mapping_cache)
       IN  /\ queries' = [queries EXCEPT !.exist = @ + 1]
           /\ IF valid_tables = <<>>
              THEN /\ ppc' = "failed"
                   /\ perr' = "TargetTableNotFoundError"
                   /\ UNCHANGED pending_tables
              ELSE /\ pending_tables' = valid_tables
                   /\ ppc' = "process"
                   /\ UNCHANGED perr
    /\ UNCHANGED <<target_value, context_front_limit, context_end_limit,
                   store_desc, absent_row, filter_group_chat,
                   contact_result, mapping_cache, process_result,
                   backtrack_front_id_map, backtrack_last_id_map,
                   backtrack_front_result, backtrack_last_result,
                   analyzer_result>>
    /\ UNCHANGED <<poolVars, hstate, taskVars, mainVars, offered, textVars,
                 batchVars>>

\* step 3, one iteration of the loop of _process_tables: the retrieval
\* query of the next pending table returns the rows m
ProcessTable(m) ==
    /\ ppc = "process"
    /\ m \subseteq StoredRows \cap (1..MaxRow)
    /\ LET table_name == pending_tables[Cardinality(DOMAIN process_result) + 1]
       IN  /\ process_result' =
                 [t \in DOMAIN process_result \cup {table_name} |->
                     IF t = table_name THEN StoreOrder(m) ELSE process_result[t]]
           /\ queries' = [queries EXCEPT !.retrieve[table_name] = @ + 1]
    /\ ppc' = IF Cardinality(DOMAIN process_result') = Len(pending_tables)
              THEN "backtrack" ELSE "process"
    /\ UNCHANGED <<perr, target_value, context_front_limit, context_end_limit,
                   archive, store_desc, absent_row, filter_group_chat,
                   contact_result, mapping_cache, pending_tables,
                   backtrack_front_id_map, backtrack_last_id_map,
                   backtrack_front_result, backtrack_last_result,
                   analyzer_result>>
    /\ UNCHANGED <<poolVars, hstate, taskVars, mainVars, offered, textVars,
                 batchVars>>

\* ------------------------------------------------ step 4, backtracking
\* the front list without the test front_id > 0
FrontIdListUnfiltered(core_local_id, limit) ==
    AscSeq({core_local_id - i : i \in 1..limit})

\* _calculate_backtrack_ids, front part for one core id: core_local_id - i
\* for i = 1..limit, kept when > 0, then list.sort()
FrontIdList(core_local_id, limit) ==
    LET cand == [i \in 1..limit |-> core_local_id - i]
    IN  AscSeq(SeqToSet(SelectSeq(cand, LAMBDA x : x > 0)))

\* _calculate_backtrack_ids, last part for one core id: core_local_id + i
\* for i = 1..limit, then list.sort()
LastIdList(core_local_id, limit) ==
    LET cand == [i \in 1..limit |-> core_local_id + i]
    IN  AscSeq(SeqToSet(cand))

\* ChatRecordDBService.get_batch_records_by_local_ids(table_name,
\* local_id_set): one query for the text rows of the table whose local_id
\* is in the set; a row the table does not store is absent from the reply
GetBatchRecordsByLocalIds(table_name, local_id_set) ==
    StoreOrder(SeqToSet(local_id_set) \cap StoredRows)

\* a conversion that hands every stored row of the table to the caller,
\* whatever ids were asked for
GetAndConvertContextRecordsAnyId(table_name, context_ids) ==
    IF context_ids = <<>> THEN <<>> ELSE StoreOrder(StoredRows)

\* _get_and_convert_context_records: no query for an empty id list; else
\* the rows of the reply, converted one by one in the order of the reply
GetAndConvertContextRecords(table_name, context_ids) ==
    IF context_ids = <<>> THEN <<>>
    ELSE LET raw_records == GetBatchRecordsByLocalIds(table_name, context_ids)
         IN  [i \in 1..Len(raw_records) |-> raw_records[i]]

ContextQueries(context_ids) == IF context_ids = <<>> THEN 0 ELSE 1

\* the (table, core id) pairs in the order the two nested loops of
\* _backtrack_context visit them, from table number i on
RECURSIVE CorePairs(_)
CorePairs(i) ==
    IF i > Len(pending_tables) THEN <<>>
    ELSE LET t == pending_tables[i]
         IN  [j \in 1..Len(process_result[t]) |-> <<t, process_result[t][j]>>]
             \o CorePairs(i + 1)

\* the pairs whose last context has not been stored yet
TodoPairs(last_result) ==
    SelectSeq(CorePairs(1), LAMBDA p : p[2] \notin DOMAIN last_result[p[1]])

\* _backtrack_context up to its first query: _calculate_backtrack_ids
CalculateBacktrackIds ==
    /\ ppc = "backtrack"
    /\ backtrack_front_id_map' =
          [t \in DOMAIN process_result |->
              [r \in SeqToSet(process_result[t]) |->
                  FrontIdList(r, context_front_limit)]]
    /\ backtrack_last_id_map' =
          [t \in DOMAIN process_result |->
              [r \in SeqToSet(process_result[t]) |->
                  LastIdList(r, context_end_limit)]]
    /\ backtrack_front_result' = [t \in DOMAIN process_result |-> <<>>]
    /\ backtrack_last_result' = [t \in DOMAIN process_result |-> <<>>]
    /\ ppc' = IF CorePairs(1) = <<>> THEN "aggregate" ELSE "context"
    /\ UNCHANGED <<perr, target_value, context_front_limit, context_end_limit,
                   archive, store_desc, absent_row, filter_group_chat,
                   contact_result, mapping_cache, pending_tables,
                   process_result, analyzer_result, queries>>
    /\ UNCHANGED <<poolVars, hstate, taskVars, mainVars, offered, textVars,
                 batchVars>>

\* one iteration of the inner loop of _backtrack_context: the front
\* context, then the last context of the next core id; after the last
\* pair the stage returns
BacktrackCore ==
    /\ ppc = "context"
    /\ LET p == Head(TodoPairs(backtrack_last_result))
           table_name == p[1]
           core_local_id == p[2]
           front_ids == backtrack_front_id_map[table_name][core_local_id]
           last_ids == backtrack_last_id_map[table_name][core_local_id]
           table_front == backtrack_front_result[table_name]
           table_last == backtrack_last_result[table_name]
       IN  /\ backtrack_front_result' =
                 [backtrack_front_result EXCEPT ![table_name] =
                     [r \in DOMAIN table_front \cup {core_local_id} |->
                         IF r = core_local_id
                         THEN GetAndConvertContextRecords(table_name, front_ids)
                         ELSE table_front[r]]]
           /\ backtrack_last_result' =
                 [backtrack_last_result EXCEPT ![table_name] =
                     [r \in DOMAIN table_last \cup {core_local_id} |->
                         IF r = core_local_id
                         THEN GetAndConvertContextRecords(table_name, last_ids)
                         ELSE table_last[r]]]
           /\ queries' = [queries EXCEPT
                             !.front[table_name] = @ + ContextQueries(front_ids),
                             !.last[table_name] = @ + ContextQueries(last_ids)]
    /\ ppc' = IF TodoPairs(backtrack_last_result') = <<>>
              THEN "aggregate" ELSE "context"
    /\ UNCHANGED <<perr, target_value, context_front_limit,
                   context_end_limit, archive, store_desc, absent_row,
                   filter_group_chat, contact_result, mapping_cache,
                   pending_tables, process_result, backtrack_front_id_map,
                   backtrack_last_id_map, analyzer_result>>
    /\ UNCHANGED <<poolVars, hstate, taskVars, mainVars, offered, textVars,
                 batchVars>>

\* ------------------------------------------------ steps 5 and 6
\* an aggregation that copies only the first record of each table
ResultOfFirstOnly(table_name) ==
    [contact |-> mapping_cache[table_name],
     table |-> table_name,
     chat_records |->
        IF table_name \in DOMAIN process_result
        THEN [j \in 1..(IF process_result[table_name] = <<>> THEN 0 ELSE 1) |->
                [local_id |-> process_result[table_name][j],
                 context_front_records |-> <<>>,
                 context_last_records |-> <<>>]]
        ELSE <<>>]

\* the AnalyzerResult _aggregate_analyzer_results builds for one item of
\* mapping_cache
ResultOf(table_name) ==
    [contact |-> mapping_cache[table_name],
     table |-> table_name,
     chat_records |->
        IF table_name \in DOMAIN process_result
        THEN [j \in 1..Len(process_result[table_name]) |->
                LET local_id == process_result[table_name][j]
                IN  [local_id |-> local_id,
                     context_front_records |->
                        IF /\ table_name \in DOMAIN backtrack_front_result
                           /\ local_id \in DOMAIN backtrack_front_result[table_name]
                        THEN backtrack_front_result[table_name][local_id]
                        ELSE <<>>,
                     context_last_records |->
                        IF /\ table_name \in DOMAIN backtrack_last_result
                           /\ local_id \in DOMAIN backtrack_last_result[table_name]
                        THEN backtrack_last_result[table_name][local_id]
                        ELSE <<>>]]
        ELSE <<>>]

\* only the tables that passed the existence check
MappingKeysPending == pending_tables

\* the keys of mapping_cache in insertion order (the order of the rows of
\* get_contacts)
MappingKeys ==
    LET us == AscSeq({mapping_cache[t] : t \in DOMAIN mapping_cache})
    IN  [i \in 1..Len(us) |-> TableOf(us[i])]

\* step 5, _aggregate_analyzer_results: one result per item of mapping_cache
AggregateAnalyzerResults ==
    /\ ppc = "aggregate"
    /\ analyzer_result' = [i \in 1..Len(MappingKeys) |-> ResultOf(MappingKeys[i])]
    /\ ppc' = "replace"
    /\ UNCHANGED <<perr, target_value, context_front_limit,
                   context_end_limit, archive, store_desc, absent_row,
                   filter_group_chat, contact_result, mapping_cache,
                   pending_tables, process_result, backtrack_front_id_map,
                   backtrack_last_id_map, backtrack_front_result,
                   backtrack_last_result, queries>>
    /\ UNCHANGED <<poolVars, hstate, taskVars, mainVars, offered, textVars,
                 batchVars>>

\* step 6 and the export: _replace_wxid_with_nickname rewrites message
\* texts only (see ReplaceWxidContent); no record is added, removed or
\* reordered
ReplaceWxidWithNickname ==
    /\ ppc = "replace"
    /\ ppc' = "done"
    /\ UNCHANGED <<perr, target_value, context_front_limit,
                   context_end_limit, archive, store_desc, absent_row,
                   filter_group_chat, contact_result, mapping_cache,
                   pending_tables, process_result, backtrack_front_id_map,
                   backtrack_last_id_map, backtrack_front_result,
                   backtrack_last_result, analyzer_result, queries>>
    /\ UNCHANGED <<poolVars, hstate, taskVars, mainVars, offered, textVars,
                 batchVars>>

PipeNext ==
    \/ AssociateMapping
    \/ \E a \in SUBSET AllTables : GetPendingTables(a)
    \/ \E m \in SUBSET (1..MaxRow) : ProcessTable(m)
    \/ CalculateBacktrackIds
    \/ BacktrackCore
    \/ AggregateAnalyzerResults
    \/ ReplaceWxidWithNickname

SpecPipe == PipeInit /\ [][PipeNext]_vars

\* ============================================ _replace_wxid_content
\* A message text is a sequence of symbols: "wxid_" stands for these five
\* characters, "a" for any other word character, " " for a character that
\* is neither a word character, a colon nor a newline.  "Alice" is a
\* display name and "None" the text str(None).
Symbols     == {"wxid_", "a", ":", "\n", " "}
WordSymbols == {"wxid_", "a"}
Texts       == UNION {[1..n -> Symbols] : n \in 0..MaxLen}

\* the one identifier the contact table knows; username_to_nickname either
\* maps it or is empty
KnownWxid == <<"wxid_", "a">>
Mappings  == {<<>>, [u \in {KnownWxid} |-> <<"Alice">>]}

\* length of the longest run of \w symbols of s that starts at position i
RECURSIVE WordRun(_, _)
WordRun(s, i) ==
    IF i <= Len(s) /\ s[i] \in WordSymbols THEN 1 + WordRun(s, i + 1) ELSE 0

\* the pattern without its trailing \n?
MatchNoNewline(content) ==
    LET k == IF Len(content) >= 1 /\ content[1] = "wxid_"
             THEN WordRun(content, 2) ELSE 0
        colon == 2 + k
    IN  IF k >= 1 /\ colon <= Len(content) /\ content[colon] = ":"
        THEN [matched |-> TRUE,
              group1 |-> SubSeq(content, 1, 1 + k),
              group0 |-> SubSeq(content, 1, colon)]
        ELSE [matched |-> FALSE, group1 |-> <<>>, group0 |-> <<>>]

\* re.match(r'^(wxid_\w+):\n?', content): \w+ is greedy and a colon is no
\* word character, so the run of word characters is the longest one
Match(content) ==
    LET k == IF Len(content) >= 1 /\ content[1] = "wxid_"
             THEN WordRun(content, 2) ELSE 0
        colon == 2 + k
        end == IF colon < Len(content) /\ content[colon + 1] = "\n"
               THEN colon + 1 ELSE colon
    IN  IF k >= 1 /\ colon <= Len(content) /\ content[colon] = ":"
        THEN [matched |-> TRUE,
              group1 |-> SubSeq(content, 1, 1 + k),
              group0 |-> SubSeq(content, 1, end)]
        ELSE [matched |-> FALSE, group1 |-> <<>>, group0 |-> <<>>]

\* str.replace(old, new, 1)
ReplaceFirst(str, old, new) ==
    LET occ == {i \in 1..(Len(str) - Len(old) + 1) :
                   SubSeq(str, i, i + Len(old) - 1) = old}
    IN  IF occ = {} THEN str
        ELSE LET i == CHOOSE x \in occ : \A y \in occ : x <= y
             IN  SubSeq(str, 1, i - 1) \o new \o SubSeq(str, i + Len(old), Len(str))

\* f'{nickname}:' where nickname = mapping.get(username): a missing key
\* gives None, which formats as "None"
NicknamePrefix(mapping, username) ==
    (IF username \in DOMAIN mapping THEN mapping[username] ELSE <<"None">>)
    \o <<":">>

\* a record and a mapping are about to be passed to _replace_wxid_content
TextStart ==
    /\ tpc = "input"
    /\ message_content \in Texts
    /\ real_sender_id \in {1, 2}
    /\ nick_mapping \in Mappings
    /\ content_in = message_content

TextInit == PoolInit /\ AnalyzerIdle /\ TextStart /\ BatchIdle

ReplaceWxidContent ==
    /\ tpc = "input"
    /\ tpc' = "output"
    /\ LET match == Match(message_content)
       IN  message_content' =
              IF real_sender_id = 1 \/ ~match.matched
              THEN message_content
              ELSE ReplaceFirst(message_content, match.group0,
                                NicknamePrefix(nick_mapping, match.group1))
    /\ UNCHANGED <<real_sender_id, nick_mapping, content_in>>
    /\ UNCHANGED <<poolVars, hstate, taskVars, mainVars, offered, analyzerVars,
                 batchVars>>

TextNext == ReplaceWxidContent

SpecText == TextInit /\ [][TextNext]_vars

\* ======================== get_batch_context_records_by_local_ids
\* step 2 and 3 of the method: core_id - i for i = 1..limit over all core
\* ids, the ids > 0 kept, as a set
ValidContextIds(core_ids, lim) ==
    {x \in {c - i : c \in core_ids, i \in 1..lim} : x > 0}

\* step 6 for one core id: the rows of the reply whose local_id is one of
\* core_id - 1 .. core_id - limit (> 0), sorted by local_id
CoreContext(core_id, lim, reply) ==
    AscSeq({x \in {core_id - i : i \in 1..lim} : x > 0 /\ x \in reply})

\* the whole method: without a valid context id no query is made; a
\* query that raises (in acquire_connection or execute_query) is logged
\* and every core id gets an empty list; else the reply is regrouped.
\* No path of the method raises.
BatchContext(core_ids, lim, rows, fails) ==
    IF ValidContextIds(core_ids, lim) = {}
    THEN [c \in core_ids |-> <<>>]
    ELSE IF fails
    THEN [c \in core_ids |-> <<>>]
    ELSE [c \in core_ids |->
             CoreContext(c, lim, ValidContextIds(core_ids, lim) \cap rows)]

BatchStart ==
    /\ bpc = "input"
    /\ core_local_id_set \in SUBSET (1..MaxRow)
    /\ batch_limit \in 0..MaxLimit
    /\ table_rows \in SUBSET (1..MaxRow)
    /\ query_fails \in BOOLEAN
    /\ core_context_map = <<>>

BatchInit == PoolInit /\ AnalyzerIdle /\ TextIdle /\ BatchStart

GetBatchContextRecordsByLocalIds ==
    /\ bpc = "input"
    /\ bpc' = "returned"
    /\ core_context_map' =
          BatchContext(core_local_id_set, batch_limit, table_rows, query_fails)
    /\ UNCHANGED <<core_local_id_set, batch_limit, table_rows, query_fails>>
    /\ UNCHANGED <<poolVars, hstate, taskVars, mainVars, offered, analyzerVars,
                   textVars>>

BatchNext == GetBatchContextRecordsByLocalIds

SpecBatch == BatchInit /\ [][BatchNext]_vars

Sizes == 0..MaxSize

Next ==
    \/ \E maxc \in Sizes \ {0}, minc \in Sizes : InitPool(maxc, minc)
    \/ \E o \in CreateOutcomes : InitStep(o)
    \/ ClosePool
    \/ CloseStep
    \/ \E t \in Tasks :
        \/ \E sc \in BOOLEAN : GetConnection(t, sc)
        \/ GetDequeue(t)
        \/ GetTimeout(t)
        \/ \E o \in {"true", "false", "raise"} : GetProbe(t, o)
        \/ \E o \in CreateOutcomes : GetCreate(t, o)
        \/ Cancel(t)
        \/ \E e \in {"none", "BodyError", "CancelledError"} : ReleaseConnection(t, e)
        \/ \E o \in {"true", "false", "raise"} : RelProbe(t, o)
        \/ RelClose(t)
        \/ \E o \in CreateOutcomes : RelCreate(t, o)
        \/ Return(t)

Spec == Init /\ [][Next]_vars

TypeOK ==
    /\ is_initialized \in BOOLEAN
    /\ pool_set \in BOOLEAN
    /\ SeqToSet(pool) \subseteq Handles
    /\ pc \in [Tasks -> {"idle", "get_wait", "get_probe", "get_create", "held",
                         "rel_probe", "rel_close", "rel_create", "done"}]
    /\ conn \in [Tasks -> Handles \cup {NoConn}]

\* ------------------------------------------------------------ properties
Free    == SeqToSet(pool)
Holding == {"held", "rel_probe", "rel_close"}
\* callers that were handed a connection and whose release has not ended
Holders == {t \in Tasks : pc[t] \in Holding}
\* acquires and releases that occupy a connection or are opening one
InUse   == {t \in Tasks : pc[t] \in {"get_probe", "get_create", "held",
                                     "rel_probe", "rel_close", "rel_create"}}
Closed(h) == hstate[h] = "closed"

\* C1: on an initialized pool the number of connections held by callers
\* (acquired and not yet released) never exceeds max_connections
C1_OutstandingAtMostMax ==
    Cardinality(Holders) <= max_connections

\* C1 witness: the pool is at capacity, every one of max_connections
\* connections is held, and a further acquire is waiting
C1_Witness ==
    /\ is_initialized
    /\ Cardinality(Holders) = max_connections
    /\ \E t \in Tasks : pc[t] = "get_wait"

\* C2: a connection is referred to by at most one task at a time, a
\* connection a task has taken is not in the free queue, and no connection
\* is in the free queue twice
C2_ExclusiveOwnership ==
    /\ \A t1, t2 \in Tasks :
          t1 # t2 /\ conn[t1] # NoConn => conn[t1] # conn[t2]
    /\ \A t \in Tasks : conn[t] # NoConn => conn[t] \notin Free
    /\ \A i, j \in 1..Len(pool) : i # j => pool[i] # pool[j]

\* C2 witness: two tasks hold two different connections at once, one
\* inside an acquire_connection scope and one through get_connection
C2_Witness ==
    \E t1, t2 \in Tasks :
        /\ t1 # t2
        /\ pc[t1] = "held" /\ scoped[t1]
        /\ pc[t2] = "held" /\ ~scoped[t2]
        /\ conn[t1] > conn[t2]

\* C3: with max_connections = N an acquire ends in DBPoolExhaustedError
\* only when N connections are taken by other callers (N concurrent
\* acquires each obtain a connection, the (N+1)th times out), and the
\* error carries N
C3_ExhaustedOnlyAtCapacity ==
    [][\A t \in Tasks :
          (is_initialized /\ pc[t] = "get_wait"
             /\ result'[t] = "DBPoolExhaustedError")
          => (Cardinality(InUse) >= max_connections
                /\ carried'[t] = max_connections)]_vars

\* C4: get_connection never returns a connection whose last liveness
\* probe reported invalid: whenever a caller holds a connection just
\* handed out, the probe run on it during the acquire returned True
C4_NeverReturnsInvalid ==
    \A t \in Tasks : pc[t] = "held" => last_probe[t] = "true"

\* C5: a release_connection call on a pool that is not shut down leaves the
\* connection it was given either back in the free queue or closed
C5_ReleasePutsBackOrCloses ==
    [][\A t \in Tasks :
          (is_initialized' /\ pc[t] \in {"rel_probe", "rel_close"}
             /\ pc'[t] \notin {"rel_probe", "rel_close"})
          => (conn[t] \in SeqToSet(pool') \/ hstate'[conn[t]] = "closed")]_vars

\* C6: when a release_connection call completes on a pool that is not
\* shut down, the free queue holds at least min_connections connections
C6_FloorAfterRelease ==
    [][\A t \in Tasks :
          (is_initialized' /\ pc[t] \in {"rel_probe", "rel_close", "rel_create"}
             /\ pc'[t] = "done"
             /\ result'[t] \in {"released", "BodyError", "CancelledError"})
          => Len(pool') >= min_connections]_vars

\* C7: when an acquire_connection scope has been exited, normally or by
\* an error of the body, on a pool that is not shut down, the connection
\* it yielded is back in the free queue or closed
C7_ScopeExitReleases ==
    [][\A t \in Tasks :
          (is_initialized' /\ scoped[t] /\ pc[t] \in Holding /\ pc'[t] = "done")
          => (conn[t] \in SeqToSet(pool') \/ hstate'[conn[t]] = "closed")]_vars

\* C8: when a task is cancelled at a suspension point of get_connection
\* or in the acquire_connection body, the connection it had taken out of
\* the free queue is back in the free queue or closed once the
\* cancellation has ended the call
C8_CancelLeaksNothing ==
    [][\A t \in Tasks :
          (conn[t] # NoConn /\ result'[t] = "CancelledError")
          => (conn[t] \in SeqToSet(pool') \/ hstate'[conn[t]] = "closed")]_vars

\* C9: a liveness probe that raises during get_connection or
\* release_connection is treated as "invalid": the call does not end with
\* the probe's DBPreloadFailedError
C9_ProbeFailureNotPropagated ==
    [][\A t \in Tasks :
          pc[t] \in {"get_probe", "rel_probe"}
          => result'[t] # "DBPreloadFailedError"]_vars

\* C10: once close_pool has completed, the free queue is empty and every
\* connection that was in it when close_pool began has been closed; and
\* every get_connection call started after close_pool began is rejected
\* without reaching the queue
C10_ShutdownClosesFreeAndRejects ==
    /\ [](mpc = "closed" =>
            /\ pool = <<>>
            /\ \A h \in free_at_close : hstate[h] = "closed")
    /\ [][\A t \in Tasks :
            (mpc \in {"closing", "closed"} /\ pc[t] = "idle" /\ pc'[t] # "idle")
            => (pc'[t] = "done" /\ result'[t] = "DBServiceNotPreloadedError")]_vars

\* C11: when init_pool has failed (a connection could not be opened or its
\* probe raised while the pool was being filled) the pool is not
\* initialized, no connection opened earlier by that init_pool call is
\* still open or in the free queue, and every get_connection call that
\* follows is rejected with DBServiceNotPreloadedError
C11_InitFailureLeavesNoPartialPool ==
    /\ [](mpc = "init_failed" =>
            /\ ~is_initialized
            /\ pool = <<>>
            /\ \A h \in Handles : hstate[h] # "open")
    /\ [][\A t \in Tasks :
            (mpc = "init_failed" /\ pc[t] = "idle" /\ pc'[t] # "idle")
            => (pc'[t] = "done" /\ result'[t] = "DBServiceNotPreloadedError")]_vars

\* ------------------------------------------- properties of the pipeline
Finished == ppc \in {"replace", "done"}
TablesOf(results) == {results[i].table : i \in 1..Len(results)}
StrictlyAscending(q) == \A i \in 1..(Len(q) - 1) : q[i] < q[i + 1]

\* C12: when get_contacts returns no row, _associate_mapping raises
\* ContactNotFoundError, no later stage runs and no query is issued; when it
\* returns at least one row, the run proceeds (a configured value that
\* matched no row stops nothing) and the keys of the mapping are exactly
\* the table names derived from the rows returned
C12_AssociateFatalOrResolvedSubset ==
    /\ [](perr = "ContactNotFoundError" =>
            /\ ppc = "failed"
            /\ queries = NoQueries
            /\ pending_tables = <<>> /\ process_result = <<>>
            /\ analyzer_result = <<>>)
    /\ [][ppc # "failed"]_vars
    /\ [][ppc = "associate" =>
            IF contact_result' = {}
            THEN ppc' = "failed" /\ perr' = "ContactNotFoundError"
            ELSE /\ ppc' = "pending" /\ perr' = "none"
                 /\ DOMAIN mapping_cache' = {TableOf(u) : u \in contact_result'}
                 /\ \A t \in DOMAIN mapping_cache' :
                       TableOf(mapping_cache'[t]) = t]_vars

\* C12 witness: a run has finished although one configured value matched
\* no contact row
C12_Witness ==
    /\ ppc = "done"
    /\ \E n \in target_value : \A u \in contact_result : RemarkOf(u) # n
    /\ contact_result # {}

\* C13: _get_pending_tables returns exactly the mapped tables that
\* sqlite_sequence lists, each once, and the run goes on with them; when
\* none is listed it raises TargetTableNotFoundError and no retrieval or
\* context query is ever issued
C13_PendingIsExistingSubset ==
    /\ [][ppc = "pending" =>
            LET existing == DOMAIN mapping_cache \cap archive'
            IN  IF existing = {}
                THEN ppc' = "failed" /\ perr' = "TargetTableNotFoundError"
                ELSE /\ ppc' = "process" /\ perr' = "none"
                     /\ SeqToSet(pending_tables') = existing
                     /\ Len(pending_tables') = Cardinality(existing)]_vars
    /\ [](perr = "TargetTableNotFoundError" =>
            /\ ppc = "failed"
            /\ \A t \in AllTables :
                  /\ queries.retrieve[t] = 0
                  /\ queries.front[t] = 0
                  /\ queries.last[t] = 0)
    /\ [](\A t \in AllTables : queries.retrieve[t] > 0 => t \in archive)

\* C13 witness: a run has finished after one mapped table was found
\* missing and dropped
C13_Witness ==
    /\ ppc = "done"
    /\ \E t \in DOMAIN mapping_cache : t \notin SeqToSet(pending_tables)
    /\ pending_tables # <<>>

\* C14: every table name in the validated list, in the retrieval results,
\* in the backtracking results, in the final results, or named in a query,
\* is a key of mapping_cache
C14_LaterTablesAreMapped ==
    /\ SeqToSet(pending_tables) \subseteq DOMAIN mapping_cache
    /\ DOMAIN process_result \subseteq DOMAIN mapping_cache
    /\ DOMAIN backtrack_front_id_map \subseteq DOMAIN mapping_cache
    /\ DOMAIN backtrack_last_id_map \subseteq DOMAIN mapping_cache
    /\ DOMAIN backtrack_front_result \subseteq DOMAIN mapping_cache
    /\ DOMAIN backtrack_last_result \subseteq DOMAIN mapping_cache
    /\ TablesOf(analyzer_result) \subseteq DOMAIN mapping_cache
    /\ \A t \in AllTables :
          queries.retrieve[t] + queries.front[t] + queries.last[t] > 0
          => t \in DOMAIN mapping_cache

\* C14 witness: a finished run in which some contact was not mapped and a
\* mapped table went through retrieval and a context query
C14_Witness ==
    /\ ppc = "done"
    /\ DOMAIN mapping_cache # AllTables
    /\ \E t \in DOMAIN process_result :
          queries.retrieve[t] > 0 /\ queries.last[t] > 0

\* C15 as claimed: the final list has exactly one result per table that
\* passed the existence check and none for a table that was dropped
C15_OneResultPerResolvedTable ==
    Finished =>
        /\ TablesOf(analyzer_result) = SeqToSet(pending_tables)
        /\ Len(analyzer_result) = Len(pending_tables)

\* C15: the final list has exactly one result per key of mapping_cache;
\* the result of a table that was dropped by the existence check has an
\* empty record list, the result of a table that passed has the records
\* of its retrieval, in order
C15_OneResultPerMappedTable ==
    Finished =>
        /\ TablesOf(analyzer_result) = DOMAIN mapping_cache
        /\ Len(analyzer_result) = Cardinality(DOMAIN mapping_cache)
        /\ \A i \in 1..Len(analyzer_result) :
              LET res == analyzer_result[i]
              IN  /\ res.contact = mapping_cache[res.table]
                  /\ IF res.table \in SeqToSet(pending_tables)
                     THEN [j \in 1..Len(res.chat_records) |->
                              res.chat_records[j].local_id]
                          = process_result[res.table]
                     ELSE res.chat_records = <<>>

\* C15 witness: a finished run whose result list holds the result of a
\* dropped table and the result of a table with records
C15_Witness ==
    /\ ppc = "done"
    /\ \E i, j \in 1..Len(analyzer_result) :
          /\ analyzer_result[i].table \notin SeqToSet(pending_tables)
          /\ analyzer_result[j].chat_records # <<>>

\* C16: when backtracking has returned, every table with at least one
\* matched record has had at most one front-context query and at most one
\* last-context query, and exactly one of a kind whenever some core id of
\* the table has a candidate id of that kind
C16_TwoQueriesPerTable ==
    ppc \in {"aggregate", "replace", "done"} =>
        \A t \in DOMAIN process_result :
            /\ queries.front[t] <= 1
            /\ queries.last[t] <= 1
            /\ (\E r \in DOMAIN backtrack_front_id_map[t] :
                   backtrack_front_id_map[t][r] # <<>>) => queries.front[t] = 1
            /\ (\E r \in DOMAIN backtrack_last_id_map[t] :
                   backtrack_last_id_map[t][r] # <<>>) => queries.last[t] = 1

\* C17: for every core id r of every table the front candidate ids are
\* exactly the ids r-1 .. r-F that are positive and the last candidate ids
\* are exactly r+1 .. r+L (F, L the two limits), whatever the table stores
C17_CandidateIds ==
    \A t \in DOMAIN backtrack_front_id_map :
        \A r \in DOMAIN backtrack_front_id_map[t] :
            /\ SeqToSet(backtrack_front_id_map[t][r])
                 = {x \in (r - context_front_limit)..(r - 1) : x > 0}
            /\ Len(backtrack_front_id_map[t][r])
                 = Cardinality(SeqToSet(backtrack_front_id_map[t][r]))
            /\ SeqToSet(backtrack_last_id_map[t][r])
                 = (r + 1)..(r + context_end_limit)
            /\ Len(backtrack_last_id_map[t][r]) = context_end_limit

\* C17 witness: a core id whose front window reaches below 1 (so fewer
\* than F front candidates remain, but at least one) and whose last window
\* holds two ids, one of them not stored
C17_Witness ==
    \E t \in DOMAIN backtrack_front_id_map :
        \E r \in DOMAIN backtrack_front_id_map[t] :
            /\ r - context_front_limit <= 0
            /\ Len(backtrack_front_id_map[t][r]) = 1
            /\ Len(backtrack_last_id_map[t][r]) = 2
            /\ \E x \in SeqToSet(backtrack_last_id_map[t][r]) : x = absent_row

\* C18: in every result of the final list the front context and the last
\* context of every record are in strictly ascending local_id order
C18_ContextListsAscending ==
    \A i \in 1..Len(analyzer_result) :
        \A j \in 1..Len(analyzer_result[i].chat_records) :
            /\ StrictlyAscending(analyzer_result[i].chat_records[j].context_front_records)
            /\ StrictlyAscending(analyzer_result[i].chat_records[j].context_last_records)

\* ------------------------------------------- properties of the rewrite
\* the text s begins with an identifier of k symbols ("wxid_" and at least
\* one more word character) followed by a colon
HasWxidPrefix(s, k) ==
    /\ k >= 2 /\ k + 1 <= Len(s)
    /\ s[1] = "wxid_"
    /\ \A i \in 2..k : s[i] \in WordSymbols
    /\ s[k + 1] = ":"

\* C19 as claimed: the rewrite of a record not sent by the user whose text
\* begins with a mapped identifier and a colon replaces the identifier by
\* the display name and leaves everything after the identifier, a newline
\* after the colon included, as it was
C19_RewriteKeepsNewline ==
    (tpc = "output" /\ real_sender_id # 1) =>
        \A k \in 2..Len(content_in) :
            (HasWxidPrefix(content_in, k)
             /\ SubSeq(content_in, 1, k) \in DOMAIN nick_mapping)
            => message_content =
                  nick_mapping[SubSeq(content_in, 1, k)]
                  \o SubSeq(content_in, k + 1, Len(content_in))

\* C19: the rewrite of such a record replaces the identifier, the colon
\* and the newline that directly follows the colon, if there is one, by
\* the display name and a colon, and leaves the rest of the text as it was
C19_RewriteDropsNewline ==
    (tpc = "output" /\ real_sender_id # 1) =>
        \A k \in 2..Len(content_in) :
            (HasWxidPrefix(content_in, k)
             /\ SubSeq(content_in, 1, k) \in DOMAIN nick_mapping)
            => LET nl == k + 2 <= Len(content_in) /\ content_in[k + 2] = "\n"
                   rest == SubSeq(content_in, IF nl THEN k + 3 ELSE k + 2,
                                  Len(content_in))
               IN  message_content =
                      nick_mapping[SubSeq(content_in, 1, k)] \o <<":">> \o rest

\* C19 witness: "wxid_a:\na" with wxid_a mapped to Alice has been rewritten
C19_Witness ==
    /\ tpc = "output"
    /\ real_sender_id # 1
    /\ content_in = <<"wxid_", "a", ":", "\n", "a">>
    /\ KnownWxid \in DOMAIN nick_mapping
    /\ message_content # content_in

\* C20: the rewrite of a record whose text begins with an identifier that
\* the mapping does not contain leaves the text as it was
C20_UnmappedLeftUnchanged ==
    tpc = "output" =>
        \A k \in 2..Len(content_in) :
            (HasWxidPrefix(content_in, k)
             /\ SubSeq(content_in, 1, k) \notin DOMAIN nick_mapping)
            => message_content = content_in

\* C26: init_pool terminates for every pair of sizes, min_connections >
\* max_connections included: it never stays suspended in _pool.put while
\* filling the queue
C26_InitNeverBlocks ==
    mpc # "init_blocked"

\* C25: once init_pool has succeeded with min_connections <=
\* max_connections, the connections in the queue plus the connections
\* callers hold (acquired, release not yet ended) never number more than
\* min_connections, under every interleaving of get_connection and
\* release_connection
C25_OwnedAtMostMin ==
    (mpc = "ready" /\ min_connections <= max_connections)
    => Cardinality(Free) + Cardinality(Holders) <= min_connections

\* C25 witness: a caller holds a connection opened as the replacement of a
\* discarded one while the pool is at its floor
C25_Witness ==
    /\ mpc = "ready"
    /\ 0 < min_connections
    /\ min_connections <= max_connections
    /\ \E t \in Tasks : pc[t] = "held" /\ conn[t] > min_connections
    /\ Cardinality(Free) + Cardinality(Holders) = min_connections

\* C28: a get_connection call that ends in an error after it took a
\* connection out of the queue (its probe raised, or the replacement could
\* not be opened) leaves the pool with as many connections as before the
\* call: the connections in the queue plus those taken by callers (each
\* running acquire or release accounts for one) number the same after the
\* failed call as before it
C28_FailedAcquireKeepsCount ==
    [][\A t \in Tasks :
          (pc[t] \in {"get_probe", "get_create"}
             /\ result'[t] = "DBPreloadFailedError")
          => Cardinality(Free') + Cardinality(InUse')
                = Cardinality(Free) + Cardinality(InUse)]_vars

\* C27: a connection that is outstanding when close_pool begins, or whose
\* release is suspended at its probe while close_pool runs, ends up closed
\* once it is passed to release_connection: a release that ends after
\* close_pool began ends without an error, and the connection it was given
\* is closed, or is in the queue that close_pool is still emptying
C27_ReleaseDuringShutdownCloses ==
    [][\A t \in Tasks :
          (mpc' \in {"closing", "closed"} /\ pc[t] \in Holding /\ pc'[t] = "done")
          => /\ result'[t] \in {"released", "BodyError", "CancelledError"}
             /\ \/ hstate'[conn[t]] = "closed"
                \/ mpc' = "closing" /\ conn[t] \in SeqToSet(pool')]_vars

\* C22: a get_connection call that waits on the empty queue obtains a
\* connection, and does not end in DBPoolExhaustedError, whenever a
\* release_connection call puts a valid connection into the queue while it
\* waits (the pool is not being shut down)
C22_WaiterServedOnRelease ==
    [][\A t \in Tasks :
          (t \in offered /\ mpc' = "ready")
          => result'[t] # "DBPoolExhaustedError"]_vars

\* C30: for every table that passed the existence check, every local_id
\* returned by the retrieval query is the local_id of exactly one record
\* of that table's AnalyzerResult, and no record of the result has a
\* local_id the retrieval did not return
C30_CoreRecordsPreserved ==
    Finished =>
        \A t \in SeqToSet(pending_tables) :
            \E i \in 1..Len(analyzer_result) :
                /\ analyzer_result[i].table = t
                /\ \A k \in 1..Len(analyzer_result) :
                      analyzer_result[k].table = t => k = i
                /\ LET recs == analyzer_result[i].chat_records
                   IN  /\ \A r \in SeqToSet(process_result[t]) :
                             Cardinality({j \in 1..Len(recs) :
                                             recs[j].local_id = r}) = 1
                       /\ \A j \in 1..Len(recs) :
                             recs[j].local_id \in SeqToSet(process_result[t])

\* C30 witness: a finished run with a table whose retrieval returned two
\* rows, one of them with context rows attached
C30_Witness ==
    /\ ppc = "done"
    /\ \E i \in 1..Len(analyzer_result) :
          /\ analyzer_result[i].table \in SeqToSet(pending_tables)
          /\ Len(analyzer_result[i].chat_records) = 2
          /\ \E j \in 1..2 :
                analyzer_result[i].chat_records[j].context_front_records # <<>>

\* C23: in the final list, for every record with local_id r of a table
\* that passed the existence check, the front context attached to r holds
\* exactly the stored rows whose local_id is among r-1 .. r-F (positive),
\* the last context exactly those among r+1 .. r+L, each once: an id the
\* table does not store is absent, the lists have at most F and L entries,
\* and no row from outside r's own window is attached
C23_ContextIsOwnWindow ==
    Finished =>
        \A i \in 1..Len(analyzer_result) :
            \A j \in 1..Len(analyzer_result[i].chat_records) :
                LET rec == analyzer_result[i].chat_records[j]
                    r == rec.local_id
                    front == rec.context_front_records
                    last == rec.context_last_records
                IN  /\ SeqToSet(front)
                         = {x \in (r - context_front_limit)..(r - 1) : x > 0}
                              \cap StoredRows
                    /\ SeqToSet(last)
                         = (r + 1)..(r + context_end_limit) \cap StoredRows
                    /\ Len(front) = Cardinality(SeqToSet(front))
                    /\ Len(last) = Cardinality(SeqToSet(last))
                    /\ Len(front) <= context_front_limit
                    /\ Len(last) <= context_end_limit

\* C23 witness: a finished run in which one table has two records; the
\* last context of one holds a row, the last context of the other is
\* shorter than L because the table does not store one of its candidates
C23_Witness ==
    /\ ppc = "done"
    /\ absent_row # 0
    /\ \E i \in 1..Len(analyzer_result) :
          LET recs == analyzer_result[i].chat_records
          IN  /\ Len(recs) = 2
              /\ \E j, k \in 1..2 :
                    /\ recs[j].context_last_records # <<>>
                    /\ recs[j].context_front_records # <<>>
                    /\ Len(recs[k].context_last_records) < context_end_limit
                    /\ absent_row \in
                          (recs[k].local_id + 1)..(recs[k].local_id + context_end_limit)

\* C24: the ids looked up as context for a table are the union of all its
\* core ids' front and last candidate ids minus the core ids themselves: a
\* matched row is never looked up as context
C24_LookupExcludesMatches ==
    ppc \in {"aggregate", "replace", "done"} =>
        \A t \in DOMAIN process_result :
            LET core == SeqToSet(process_result[t])
                looked_up ==
                    UNION {SeqToSet(backtrack_front_id_map[t][r])
                             \cup SeqToSet(backtrack_last_id_map[t][r]) : r \in core}
                candidates ==
                    UNION {{x \in (r - context_front_limit)..(r - 1) : x > 0}
                             \cup ((r + 1)..(r + context_end_limit)) : r \in core}
            IN  looked_up = candidates \ core

\* connections that are open but in nobody's hands: not in the queue, not
\* referred to by a running call, not being closed by close_pool
Outstanding ==
    {h \in Handles : /\ hstate[h] = "open"
                     /\ h \notin Free
                     /\ h # mconn
                     /\ \A u \in Tasks : conn[u] # h}

\* C29: a query of the pipeline runs inside one acquire_connection scope
\* and so holds one connection; when the query ends, by returning or by
\* an error of its body or of the release, on a pool that is not shut
\* down, the connection it held is not left outstanding, so the run ends
\* with no connection of its queries outstanding
C29_QueryLeavesNothingOutstanding ==
    [][\A t \in Tasks :
          (mpc' = "ready" /\ scoped[t] /\ pc[t] \in Holding /\ pc'[t] = "done")
          => Outstanding' \subseteq Outstanding]_vars

\* C21: when the store query of a table fails and the failure does not end
\* the call, the outcome reported for that table shows the failure: it
\* differs from the outcome of a table whose query worked and found no
\* context row
C21_FailureIsReported ==
    (/\ bpc = "returned"
     /\ query_fails
     /\ ValidContextIds(core_local_id_set, batch_limit) # {})
    => core_context_map # [c \in core_local_id_set |-> <<>>]

====
